---- MODULE Spec2Model ----
(***************************************************************************)
(* Model of the ARIMA forecasting backend (python_backend/app.py) and of   *)
(* the model generator (python_backend/generate_model.py).                 *)
(*                                                                         *)
(* Numbers: forecast values and interval bounds are fixed-point integers   *)
(* in thousandths (5000 is 5.0); the values the handlers return after      *)
(* round(x, 2) are integers in hundredths.  Dates are <<year, month, day>> *)
(* triples, ordered as their '%Y-%m-%d' strings are.                       *)
(*                                                                         *)
(* Three specifications share the variables:                               *)
(*   Spec      the request handlers, each run to completion;               *)
(*   SpecConc  a load and a request running in two threads, one step per   *)
(*             read or write of the module globals;                        *)
(*   SpecTrain the order search of train_arima_model and save_model.       *)
(***************************************************************************)
EXTENDS Integers, Sequences, FiniteSets, TLC

VARIABLES
    file,          \* SpecConc: the artifact at model_path (in Spec an input of a load)
    arima_model,   \* app.py global arima_model
    model_loaded,  \* app.py global model_loaded
    response,      \* the response of the handler that ran last
    pc_l,          \* SpecConc: position of the loading thread
    l_data,        \* SpecConc: its local model_data
    pc_r,          \* SpecConc: position of the request thread
    r_req,         \* SpecConc: its request (surface, period_type, days, today)
    r_forecast,    \* SpecConc: the model that computed its local forecast
    r_ci,          \* SpecConc: the model that computed its local forecast_ci
    t_pc,          \* SpecTrain: position in main()
    t_i,           \* SpecTrain: index of the next candidate of orders_to_try
    t_fits,        \* SpecTrain: outcome of each fit attempted so far
    best_aic,      \* train_arima_model local best_aic
    best_order,    \* train_arima_model local best_order
    best_model,    \* train_arima_model local best_model
    saved          \* the model_info dictionary save_model pickled

server_vars == <<file, arima_model, model_loaded, response>>
conc_vars == <<pc_l, l_data, pc_r, r_req, r_forecast, r_ci>>
train_vars == <<t_pc, t_i, t_fits, best_aic, best_order, best_model, saved>>
vars == <<file, arima_model, model_loaded, response, pc_l, l_data, pc_r, r_req,
          r_forecast, r_ci, t_pc, t_i, t_fits, best_aic, best_order, best_model,
          saved>>

(***************************************************************************)
(* Bounds of the model.                                                    *)
(***************************************************************************)
\* days inputs go up to MaxOver past each per-period maximum
MaxOver == 1
\* the AIC of a successful fit is one of 1..MaxAIC
MaxAIC == 2
\* at most MaxFits candidates of one search fit successfully
MaxFits == 4
\* the days a request of SpecConc asks for
ConcDays == 2

(***************************************************************************)
(* Model objects.  A fitted model forecasts base + slope*i at step i and,  *)
(* when has_ci, gives the normal interval point -+ 1.96*se*(i+1).          *)
(***************************************************************************)
NoneModel == [kind |-> "none", id |-> 0, base |-> 0, slope |-> 0, has_ci |-> FALSE, se |-> 0]
JunkModel == [kind |-> "junk", id |-> 0, base |-> 0, slope |-> 0, has_ci |-> FALSE, se |-> 0]
ModelA == [kind |-> "fitted", id |-> 1, base |-> 5250, slope |-> 125, has_ci |-> TRUE, se |-> 500]
ModelB == [kind |-> "fitted", id |-> 2, base |-> 1000, slope |-> -500, has_ci |-> FALSE, se |-> 0]
FittedModels == {ModelA, ModelB}

IsFitted(m) == m.kind = "fitted"

(***************************************************************************)
(* The artifact at model_path: absent, unreadable, a metadata dictionary   *)
(* with a 'model' entry, or a bare pickled object.                         *)
(***************************************************************************)
MissingFile == [state |-> "missing", form |-> "none", model |-> NoneModel, version |-> "none"]
CorruptFile == [state |-> "corrupt", form |-> "none", model |-> NoneModel, version |-> "none"]
DictFile(m, v) == [state |-> "ok", form |-> "dict", model |-> m, version |-> v]
BareFile(m) == [state |-> "ok", form |-> "bare", model |-> m, version |-> "none"]
Files ==
    {MissingFile, CorruptFile}
    \cup {DictFile(m, "1.0") : m \in FittedModels \cup {NoneModel, JunkModel}}
    \cup {DictFile(ModelA, "9.9")}
    \cup {BareFile(m) : m \in {ModelA, JunkModel}}

(***************************************************************************)
(* Requests.                                                               *)
(***************************************************************************)
PeriodTypes == {"daily", "monthly", "yearly"}
RequestPeriods == PeriodTypes \cup {"weekly"}
MaxDaily == 30
MaxMonthly == 60
MaxYearly == 12
DefaultDays == 7
max_days(period_type) ==
    CASE period_type = "daily" -> MaxDaily
      [] period_type = "monthly" -> MaxMonthly
      [] period_type = "yearly" -> MaxYearly
DaysInputs ==
    {1, DefaultDays}
    \cup UNION {max_days(p)..(max_days(p) + MaxOver) : p \in PeriodTypes}
Todays == {<<2026, 1, 31>>, <<2026, 11, 1>>, <<2027, 12, 31>>}

(***************************************************************************)
(* datetime arithmetic on <<year, month, day>>.                            *)
(***************************************************************************)
IsLeap(y) == (y % 4 = 0 /\ y % 100 # 0) \/ y % 400 = 0
DaysInMonth(y, m) ==
    IF m = 2 THEN (IF IsLeap(y) THEN 29 ELSE 28)
    ELSE IF m \in {4, 6, 9, 11} THEN 30 ELSE 31
NextDay(d) ==
    IF d[3] < DaysInMonth(d[1], d[2]) THEN <<d[1], d[2], d[3] + 1>>
    ELSE IF d[2] < 12 THEN <<d[1], d[2] + 1, 1>>
    ELSE <<d[1] + 1, 1, 1>>
RECURSIVE PlusDays(_, _)
\* today + timedelta(days=n)
PlusDays(d, n) ==
    IF d[3] + n <= DaysInMonth(d[1], d[2]) THEN <<d[1], d[2], d[3] + n>>
    ELSE PlusDays(NextDay(<<d[1], d[2], DaysInMonth(d[1], d[2])>>),
                  n - (DaysInMonth(d[1], d[2]) - d[3]) - 1)
\* pred_date of step i (0-based)
pred_date(today, i, period_type) ==
    IF period_type = "yearly"
    THEN LET month == ((today[2] + i) % 12) + 1
             first == <<today[1], month, 1>>
         IN  IF today[2] + i > 12 THEN <<first[1] + 1, first[2], first[3]>> ELSE first
    ELSE PlusDays(today, i + 1)

(***************************************************************************)
(* Forecast synthesis (generate_real_predictions).                         *)
(***************************************************************************)
\* round() of x/d to an integer: Python rounds halves to even
RoundDiv(x, d) ==
    LET q == x \div d
        r == x % d
    IN  IF 2 * r < d THEN q
        ELSE IF 2 * r > d THEN q + 1
        ELSE IF q % 2 = 0 THEN q ELSE q + 1

Max2(a, b) == IF a >= b THEN a ELSE b
Min2(a, b) == IF a <= b THEN a ELSE b

\* arima_model.forecast(steps)[i], in thousandths
point_forecast(m, i) == m.base + m.slope * i
\* arima_model.get_forecast(steps).conf_int() exists
native_ci(m) == IsFitted(m) /\ m.has_ci
\* forecast_ci.iloc[i, 0] and forecast_ci.iloc[i, 1], in 1/100000
native_lower(m, i) == point_forecast(m, i) * 100 - 196 * m.se * (i + 1)
native_upper(m, i) == point_forecast(m, i) * 100 + 196 * m.se * (i + 1)

\* predicted_value - 1.96 * (predicted_value * 0.15), in millionths
fallback_lower(pv) == pv * 1000 - (196 * 15 * pv) \div 10
\* predicted_value + 1.96 * (predicted_value * 0.15), in millionths
fallback_upper(pv) == pv * 1000 + (196 * 15 * pv) \div 10

\* max(0.6, min(0.95, 0.9 - (i * 0.02))), in thousandths
model_confidence(i) == Max2(600, Min2(950, 900 - i * 20))

\* one entry of predictions; fm computed forecast and cm forecast_ci
prediction(fm, cm, i, period_type, today) ==
    LET predicted_value == point_forecast(fm, i)
    IN  [date |-> pred_date(today, i, period_type),
         predicted_value |-> RoundDiv(predicted_value, 10),
         confidence_interval_lower |->
             IF native_ci(cm) THEN RoundDiv(native_lower(cm, i), 1000)
             ELSE RoundDiv(fallback_lower(predicted_value), 10000),
         confidence_interval_upper |->
             IF native_ci(cm) THEN RoundDiv(native_upper(cm, i), 1000)
             ELSE RoundDiv(fallback_upper(predicted_value), 10000),
         model_confidence |-> model_confidence(i),
         day_index |-> i,
         period_type |-> period_type]

\* the loop over range(days)
build_predictions(fm, cm, days, period_type, today) ==
    [k \in 1..days |-> prediction(fm, cm, k - 1, period_type, today)]

\* a faulty guard that tests model_loaded alone
ModelUnavailableLoadedOnly(loaded, model) == ~loaded
\* the guard of generate_real_predictions
ModelUnavailable(loaded, model) == ~loaded \/ model.kind = "none"

Raised(e) == [raised |-> TRUE, error |-> e, predictions |-> <<>>]
Returned(p) == [raised |-> FALSE, error |-> "", predictions |-> p]

\* generate_real_predictions run to completion on the globals (loaded, model)
generate_real_predictions(loaded, model, days, period_type, today) ==
    IF ModelUnavailable(loaded, model) THEN Raised("not_loaded")
    ELSE IF ~IsFitted(model) THEN Raised("forecast_failed")
    ELSE Returned(build_predictions(model, model, days, period_type, today))

\* one entry of hybrid_predictions, without its random-noise fields
hybrid_pred(pred) ==
    [date |-> pred.date,
     precipitation |-> RoundDiv(Max2(0, pred.predicted_value), 10),
     confidence |-> pred.model_confidence,
     source |-> "ARIMA_Real_Model",
     arima_value |-> pred.predicted_value,
     confidence_interval |->
         <<pred.confidence_interval_lower, pred.confidence_interval_upper>>,
     day_index |-> pred.day_index]

hybrid_predictions(preds) == [k \in 1..Len(preds) |-> hybrid_pred(preds[k])]

(***************************************************************************)
(* Loading (load_arima_model): the new values of the two globals and the   *)
(* returned flag.                                                          *)
(***************************************************************************)
LoadResult(model, loaded, success) ==
    [model |-> model, loaded |-> loaded, success |-> success]

\* os.path.exists(model_path) is false: return False
LoadNotFound(model, loaded) == LoadResult(model, loaded, FALSE)

\* a faulty except branch that also drops the resident model
LoadFailedDropsModel(model, loaded) == LoadResult(NoneModel, FALSE, FALSE)
\* open() or pickle.load() raises: the except branch
LoadFailed(model, loaded) == LoadResult(model, FALSE, FALSE)

\* the payload deserialized: arima_model and model_loaded are assigned
\* (model_data['model'] of a dictionary, model_data itself otherwise)
LoadAssigned(model_data) == LoadResult(model_data.model, TRUE, TRUE)

load_arima_model(f, model, loaded) ==
    IF f.state = "missing" THEN LoadNotFound(model, loaded)
    ELSE IF f.state = "corrupt" THEN LoadFailed(model, loaded)
    ELSE LoadAssigned(f)

(***************************************************************************)
(* Responses of the handlers.                                              *)
(***************************************************************************)
Response(op, http, success, error, preds, period_type, days, today, payload, loaded) ==
    [op |-> op, http |-> http, success |-> success, error |-> error,
     predictions |-> preds, period_type |-> period_type, days |-> days,
     today |-> today, payload |-> payload, loaded |-> loaded]

NoDate == <<0, 0, 0>>
NoResponse == Response("none", 0, FALSE, "", <<>>, "", 0, NoDate, MissingFile, FALSE)

\* a faulty handler that passes days on unclamped
NoClamp(days, period_type) == days
\* if days > max_days[period_type]: days = max_days[period_type]
ClampDays(days, period_type) ==
    IF days > max_days(period_type) THEN max_days(period_type) ELSE days

\* GET /predictions/<period_type>?days=
get_predictions(period_type, days, today) ==
    IF period_type \notin PeriodTypes
    THEN Response("forecast", 400, FALSE, "invalid_period", <<>>, period_type, days,
                  today, MissingFile, model_loaded)
    ELSE LET clamped == ClampDays(days, period_type)
             got == generate_real_predictions(model_loaded, arima_model, clamped,
                                              period_type, today)
         IN  IF ~model_loaded
             THEN Response("forecast", 500, FALSE, "not_loaded", <<>>, period_type,
                           days, today, MissingFile, model_loaded)
             ELSE IF got.raised
             THEN Response("forecast", 500, FALSE, got.error, <<>>, period_type, days,
                           today, MissingFile, model_loaded)
             ELSE Response("forecast", 200, TRUE, "", got.predictions, period_type,
                           days, today, MissingFile, model_loaded)

\* POST /predictions/hybrid/<period_type> with {"days": days}
get_hybrid_predictions(period_type, days, today) ==
    LET got == generate_real_predictions(model_loaded, arima_model, days,
                                         period_type, today)
    IN  IF got.raised
        THEN Response("hybrid", 500, FALSE, got.error, <<>>, period_type, days,
                      today, MissingFile, model_loaded)
        ELSE Response("hybrid", 200, TRUE, "", hybrid_predictions(got.predictions),
                      period_type, days, today, MissingFile, model_loaded)

(***************************************************************************)
(* Spec: the handlers, each run to completion.                             *)
(***************************************************************************)
InitServer ==
    /\ file = MissingFile
    /\ arima_model = NoneModel
    /\ model_loaded = FALSE
    /\ response = NoResponse

\* POST /model/load; the artifact the load finds at model_path is its input
LoadModel ==
    /\ \E f \in Files :
           LET r == load_arima_model(f, arima_model, model_loaded)
           IN  /\ arima_model' = r.model
               /\ model_loaded' = r.loaded
               /\ response' = Response("load", 200, r.success, "", <<>>, "", 0, NoDate,
                                       f, r.loaded)
    /\ UNCHANGED file

GetPredictions ==
    /\ \E p \in RequestPeriods, d \in DaysInputs, t \in Todays :
           response' = get_predictions(p, d, t)
    /\ UNCHANGED <<file, arima_model, model_loaded>>

GetHybridPredictions ==
    /\ \E p \in RequestPeriods, d \in DaysInputs, t \in Todays :
           response' = get_hybrid_predictions(p, d, t)
    /\ UNCHANGED <<file, arima_model, model_loaded>>

(***************************************************************************)
(* SpecConc: load_arima_model in one thread and a request in another (the  *)
(* server runs threaded), one step per read or write of a global.          *)
(***************************************************************************)
ConcFiles == {MissingFile, CorruptFile, DictFile(ModelA, "1.0"), DictFile(ModelB, "1.0")}
ConcPeriods == {"daily", "weekly"}
ConcToday == <<2026, 11, 1>>
Surfaces == {"forecast", "hybrid"}

Request(surface, period_type, days, today) ==
    [surface |-> surface, period_type |-> period_type, days |-> days, today |-> today]
NoRequest == Request("none", "", 0, NoDate)

InitThreads ==
    /\ pc_l = "idle"
    /\ l_data = MissingFile
    /\ pc_r = "idle"
    /\ r_req = NoRequest
    /\ r_forecast = NoneModel
    /\ r_ci = NoneModel

ConcSetFile ==
    /\ \E f \in ConcFiles : file' = f
    /\ UNCHANGED <<arima_model, model_loaded, response, conc_vars>>

\* os.path.exists(model_path) is false: the load returns False
L_NotFound ==
    /\ pc_l = "idle"
    /\ file.state = "missing"
    /\ UNCHANGED <<server_vars, conc_vars>>

\* os.path.exists(model_path) is true
L_Exists ==
    /\ pc_l = "idle"
    /\ file.state # "missing"
    /\ pc_l' = "open"
    /\ UNCHANGED <<server_vars, l_data, pc_r, r_req, r_forecast, r_ci>>

\* open() and pickle.load() return model_data
L_Read ==
    /\ pc_l = "open"
    /\ file.state = "ok"
    /\ l_data' = file
    /\ pc_l' = "assign"
    /\ UNCHANGED <<server_vars, pc_r, r_req, r_forecast, r_ci>>

\* open() or pickle.load() raises: model_loaded = False, return False
L_ReadFails ==
    /\ pc_l = "open"
    /\ file.state # "ok"
    /\ model_loaded' = LoadFailed(arima_model, model_loaded).loaded
    /\ arima_model' = LoadFailed(arima_model, model_loaded).model
    /\ pc_l' = "idle"
    /\ UNCHANGED <<file, response, l_data, pc_r, r_req, r_forecast, r_ci>>

\* arima_model = model_data['model'] or arima_model = model_data
L_AssignModel ==
    /\ pc_l = "assign"
    /\ arima_model' = LoadAssigned(l_data).model
    /\ pc_l' = "flag"
    /\ UNCHANGED <<file, model_loaded, response, l_data, pc_r, r_req, r_forecast, r_ci>>

\* model_loaded = True, return True
L_SetLoaded ==
    /\ pc_l = "flag"
    /\ model_loaded' = LoadAssigned(l_data).loaded
    /\ pc_l' = "idle"
    /\ UNCHANGED <<file, arima_model, response, l_data, pc_r, r_req, r_forecast, r_ci>>

ConcFailure(req, http, error) ==
    Response(req.surface, http, FALSE, error, <<>>, req.period_type, req.days,
             req.today, MissingFile, model_loaded)

\* get_predictions up to its own test of model_loaded
R_BeginForecast ==
    /\ pc_r = "idle"
    /\ \E p \in ConcPeriods :
           LET req == Request("forecast", p, ConcDays, ConcToday)
           IN  IF p \notin PeriodTypes
               THEN /\ response' = ConcFailure(req, 400, "invalid_period")
                    /\ UNCHANGED <<pc_r, r_req>>
               ELSE IF ~model_loaded
               THEN /\ response' = ConcFailure(req, 500, "not_loaded")
                    /\ UNCHANGED <<pc_r, r_req>>
               ELSE /\ r_req' = Request("forecast", p, ClampDays(ConcDays, p), ConcToday)
                    /\ pc_r' = "check_loaded"
                    /\ UNCHANGED response
    /\ UNCHANGED <<file, arima_model, model_loaded, pc_l, l_data, r_forecast, r_ci>>

\* get_hybrid_predictions up to its call of generate_real_predictions
R_BeginHybrid ==
    /\ pc_r = "idle"
    /\ \E p \in ConcPeriods : r_req' = Request("hybrid", p, ConcDays, ConcToday)
    /\ pc_r' = "check_loaded"
    /\ UNCHANGED <<server_vars, pc_l, l_data, r_forecast, r_ci>>

\* generate_real_predictions reads model_loaded in its guard
R_CheckLoaded ==
    /\ pc_r = "check_loaded"
    /\ IF ~model_loaded
       THEN /\ response' = ConcFailure(r_req, 500, "not_loaded")
            /\ pc_r' = "idle"
       ELSE /\ pc_r' = "check_model"
            /\ UNCHANGED response
    /\ UNCHANGED <<file, arima_model, model_loaded, pc_l, l_data, r_req, r_forecast, r_ci>>

\* generate_real_predictions reads arima_model in its guard
R_CheckModel ==
    /\ pc_r = "check_model"
    /\ IF arima_model.kind = "none"
       THEN /\ response' = ConcFailure(r_req, 500, "not_loaded")
            /\ pc_r' = "idle"
       ELSE /\ pc_r' = "forecast"
            /\ UNCHANGED response
    /\ UNCHANGED <<file, arima_model, model_loaded, pc_l, l_data, r_req, r_forecast, r_ci>>

\* forecast = arima_model.forecast(steps=days)
R_Forecast ==
    /\ pc_r = "forecast"
    /\ IF IsFitted(arima_model)
       THEN /\ r_forecast' = arima_model
            /\ pc_r' = "conf_int"
            /\ UNCHANGED response
       ELSE /\ response' = ConcFailure(r_req, 500, "forecast_failed")
            /\ pc_r' = "idle"
            /\ UNCHANGED r_forecast
    /\ UNCHANGED <<file, arima_model, model_loaded, pc_l, l_data, r_req, r_ci>>

\* forecast_ci = arima_model.get_forecast(steps=days).conf_int(), or the except
R_ConfInt ==
    /\ pc_r = "conf_int"
    /\ r_ci' = arima_model
    /\ pc_r' = "build"
    /\ UNCHANGED <<server_vars, pc_l, l_data, r_req, r_forecast>>

\* the loop over range(days) and the handler's response
R_Respond ==
    /\ pc_r = "build"
    /\ LET preds == build_predictions(r_forecast, r_ci, r_req.days, r_req.period_type,
                                      r_req.today)
       IN  response' = Response(r_req.surface, 200, TRUE, "",
                                IF r_req.surface = "hybrid"
                                THEN hybrid_predictions(preds) ELSE preds,
                                r_req.period_type, r_req.days, r_req.today,
                                MissingFile, model_loaded)
    /\ pc_r' = "idle"
    /\ UNCHANGED <<file, arima_model, model_loaded, pc_l, l_data, r_req, r_forecast, r_ci>>

(***************************************************************************)
(* SpecTrain: train_arima_model's order search, then save_model.           *)
(***************************************************************************)
orders_to_try ==
    << <<1, 1, 1>>, <<2, 1, 1>>, <<1, 1, 2>>, <<2, 1, 2>>,
       <<3, 1, 1>>, <<1, 1, 3>>, <<2, 1, 3>>, <<3, 1, 2>>,
       <<1, 0, 1>>, <<2, 0, 1>>, <<1, 0, 2>> >>
FallbackOrder == <<1, 1, 1>>
AICs == 1..MaxAIC

\* a fitted_model: its model.order and its aic
FittedModel(order, aic) == [fitted |-> TRUE, order |-> order, aic |-> aic]
NoFit == [fitted |-> FALSE, order |-> <<0, 0, 0>>, aic |-> 0]
NoOrder == <<0, 0, 0>>
\* float('inf')
Infinity == [inf |-> TRUE, v |-> 0]
Finite(a) == [inf |-> FALSE, v |-> a]

FitOk(aic) == [ok |-> TRUE, aic |-> aic]
FitFailed == [ok |-> FALSE, aic |-> 0]
Fits(fits) == {k \in 1..Len(fits) : fits[k].ok}

NoSaved == [written |-> FALSE, model |-> NoFit, model_type |-> "", order |-> NoOrder,
            aic |-> 0, version |-> ""]

\* a faulty comparison, <=, under which the last of equal AICs wins
LastWins(aic, best) == best.inf \/ aic <= best.v
\* fitted_model.aic < best_aic
Better(aic, best) == best.inf \/ aic < best.v

InitTrain ==
    /\ t_pc = "search"
    /\ t_i = 1
    /\ t_fits = <<>>
    /\ best_aic = Infinity
    /\ best_order = NoOrder
    /\ best_model = NoFit
    /\ saved = NoSaved

\* one iteration of the loop whose fit succeeds
TrainFit ==
    /\ t_pc = "search"
    /\ t_i <= Len(orders_to_try)
    /\ Cardinality(Fits(t_fits)) < MaxFits
    /\ \E aic \in AICs :
           /\ t_fits' = Append(t_fits, FitOk(aic))
           /\ IF Better(aic, best_aic)
              THEN /\ best_aic' = Finite(aic)
                   /\ best_order' = orders_to_try[t_i]
                   /\ best_model' = FittedModel(orders_to_try[t_i], aic)
              ELSE UNCHANGED <<best_aic, best_order, best_model>>
    /\ t_i' = t_i + 1
    /\ UNCHANGED <<t_pc, saved, server_vars, conc_vars>>

\* one iteration of the loop whose fit raises: continue
TrainFitFails ==
    /\ t_pc = "search"
    /\ t_i <= Len(orders_to_try)
    /\ t_fits' = Append(t_fits, FitFailed)
    /\ t_i' = t_i + 1
    /\ UNCHANGED <<t_pc, best_aic, best_order, best_model, saved, server_vars, conc_vars>>

\* the loop is over and best_model is not None
TrainKeepBest ==
    /\ t_pc = "search"
    /\ t_i > Len(orders_to_try)
    /\ best_model.fitted
    /\ t_pc' = "trained"
    /\ UNCHANGED <<t_i, t_fits, best_aic, best_order, best_model, saved,
                   server_vars, conc_vars>>

\* best_model is None: the fallback fit of ARIMA(1,1,1) succeeds
TrainFallback ==
    /\ t_pc = "search"
    /\ t_i > Len(orders_to_try)
    /\ ~best_model.fitted
    /\ \E aic \in AICs : best_model' = FittedModel(FallbackOrder, aic)
    /\ best_order' = FallbackOrder
    /\ t_pc' = "trained"
    /\ UNCHANGED <<t_i, t_fits, best_aic, saved, server_vars, conc_vars>>

\* best_model is None: the fallback fit raises out of train_arima_model
TrainFallbackFails ==
    /\ t_pc = "search"
    /\ t_i > Len(orders_to_try)
    /\ ~best_model.fitted
    /\ t_pc' = "failed"
    /\ UNCHANGED <<t_i, t_fits, best_aic, best_order, best_model, saved,
                   server_vars, conc_vars>>

\* save_model(model) with the model train_arima_model returned
SaveModel ==
    /\ t_pc = "trained"
    /\ saved' = [written |-> TRUE, model |-> best_model, model_type |-> "ARIMA",
                 order |-> best_model.order, aic |-> best_model.aic,
                 version |-> "1.0"]
    /\ t_pc' = "saved"
    /\ UNCHANGED <<t_i, t_fits, best_aic, best_order, best_model, server_vars, conc_vars>>

(***************************************************************************)
(* The specifications.                                                     *)
(***************************************************************************)
Init == InitServer /\ InitThreads /\ InitTrain

Next ==
    \/ LoadModel /\ UNCHANGED <<conc_vars, train_vars>>
    \/ GetPredictions /\ UNCHANGED <<conc_vars, train_vars>>
    \/ GetHybridPredictions /\ UNCHANGED <<conc_vars, train_vars>>

Spec == Init /\ [][Next]_vars

InitConc ==
    /\ file \in ConcFiles
    /\ arima_model = NoneModel
    /\ model_loaded = FALSE
    /\ response = NoResponse
    /\ InitThreads
    /\ InitTrain

NextConc ==
    \/ ConcSetFile /\ UNCHANGED train_vars
    \/ L_NotFound /\ UNCHANGED train_vars
    \/ L_Exists /\ UNCHANGED train_vars
    \/ L_Read /\ UNCHANGED train_vars
    \/ L_ReadFails /\ UNCHANGED train_vars
    \/ L_AssignModel /\ UNCHANGED train_vars
    \/ L_SetLoaded /\ UNCHANGED train_vars
    \/ R_BeginForecast /\ UNCHANGED train_vars
    \/ R_BeginHybrid /\ UNCHANGED train_vars
    \/ R_CheckLoaded /\ UNCHANGED train_vars
    \/ R_CheckModel /\ UNCHANGED train_vars
    \/ R_Forecast /\ UNCHANGED train_vars
    \/ R_ConfInt /\ UNCHANGED train_vars
    \/ R_Respond /\ UNCHANGED train_vars

SpecConc == InitConc /\ [][NextConc]_vars

NextTrain ==
    \/ TrainFit
    \/ TrainFitFails
    \/ TrainKeepBest
    \/ TrainFallback
    \/ TrainFallbackFails
    \/ SaveModel

SpecTrain == Init /\ [][NextTrain]_vars

(***************************************************************************)
(* Properties.  A request leaves arima_model and model_loaded as they      *)
(* were, so in Spec, while response is the response of a request, the two  *)
(* globals are those the request ran on.                                   *)
(***************************************************************************)
IsRequest(r) == r.op \in Surfaces
\* order of two dates, which is the order of their '%Y-%m-%d' strings
DateBefore(a, b) ==
    \/ a[1] < b[1]
    \/ a[1] = b[1] /\ a[2] < b[2]
    \/ a[1] = b[1] /\ a[2] = b[2] /\ a[3] < b[3]
\* a payload that holds a usable fitted model: a fitted model, under a
\* recognized version when it comes in a metadata dictionary
UsablePayload(f) ==
    /\ f.state = "ok"
    /\ IsFitted(f.model)
    /\ f.form = "dict" => f.version = "1.0"
\* the point value and the two bounds of an entry of either surface
PointOf(r, k) ==
    IF r.op = "hybrid" THEN r.predictions[k].arima_value
    ELSE r.predictions[k].predicted_value
LowerOf(r, k) ==
    IF r.op = "hybrid" THEN r.predictions[k].confidence_interval[1]
    ELSE r.predictions[k].confidence_interval_lower
UpperOf(r, k) ==
    IF r.op = "hybrid" THEN r.predictions[k].confidence_interval[2]
    ELSE r.predictions[k].confidence_interval_upper

\* C1: in every entry a request returns, confidence_interval_lower <=
\* predicted_value <= confidence_interval_upper, on the native and on the
\* fallback interval path, for positive, zero and negative point values.
C1_IntervalContainsPoint ==
    (IsRequest(response) /\ response.success) =>
        \A k \in 1..Len(response.predictions) :
            /\ LowerOf(response, k) <= PointOf(response, k)
            /\ PointOf(response, k) <= UpperOf(response, k)

\* C2: with a load running beside a request, every entry list a request
\* returns has its point values and its interval bounds computed from one
\* single model.
C2_ForecastFromOneModel ==
    (IsRequest(response) /\ response.success) =>
        \E m \in FittedModels :
            LET preds == build_predictions(m, m, response.days, response.period_type,
                                           response.today)
            IN  response.predictions =
                    IF response.op = "hybrid" THEN hybrid_predictions(preds) ELSE preds

\* C3: a request of either surface whose period_type is not daily, monthly
\* or yearly is answered with an error and no predictions, whatever the
\* model state is.
C3_InvalidPeriodRejected ==
    (IsRequest(response) /\ response.period_type \notin PeriodTypes) =>
        /\ ~response.success
        /\ response.http # 200
        /\ response.predictions = <<>>

\* C4: a forecast request on a loaded fitted model succeeds and returns 30
\* (daily), 60 (monthly) or 12 (yearly) entries when days exceeds that
\* maximum, and exactly days entries when 1 <= days <= maximum.
C4_ForecastClampsDays ==
    (/\ response.op = "forecast"
     /\ response.period_type \in PeriodTypes
     /\ response.days >= 1
     /\ model_loaded
     /\ IsFitted(arima_model)) =>
        LET limit == CASE response.period_type = "daily" -> 30
                       [] response.period_type = "monthly" -> 60
                       [] response.period_type = "yearly" -> 12
        IN  /\ response.success
            /\ response.http = 200
            /\ response.days > limit => Len(response.predictions) = limit
            /\ response.days <= limit => Len(response.predictions) = response.days

\* a daily forecast request for 31 days was answered with 30 entries
C4_Witness ==
    /\ response.op = "forecast"
    /\ response.success
    /\ response.period_type = "daily"
    /\ response.days = 31
    /\ Len(response.predictions) = 30

\* C5: the number of hybrid predictions a hybrid request returns never
\* exceeds 30 for daily, 60 for monthly, 12 for yearly.
C5_HybridClampsDays ==
    (/\ response.op = "hybrid"
     /\ response.success
     /\ response.period_type \in PeriodTypes) =>
        Len(response.predictions) <=
            CASE response.period_type = "daily" -> 30
              [] response.period_type = "monthly" -> 60
              [] response.period_type = "yearly" -> 12

\* the least AIC among the fits that succeeded
MinAIC(fits) == CHOOSE a \in {fits[k].aic : k \in Fits(fits)} :
                    \A k \in Fits(fits) : a <= fits[k].aic
\* the first candidate whose fit has that AIC
FirstBest(fits) == CHOOSE k \in Fits(fits) :
                       /\ fits[k].aic = MinAIC(fits)
                       /\ \A j \in Fits(fits) : fits[j].aic = MinAIC(fits) => k <= j

\* C6: when at least one candidate fits, train_arima_model returns the fit of
\* the first candidate, in enumeration order, whose AIC is the minimum over
\* the candidates that fitted; failed candidates are never selected; and
\* save_model persists that fit, its order and its AIC.
C6_SelectsFirstMinimumAIC ==
    (t_pc \in {"trained", "saved"} /\ Fits(t_fits) # {}) =>
        /\ Len(t_fits) = Len(orders_to_try)
        /\ best_model.fitted
        /\ best_model.order = orders_to_try[FirstBest(t_fits)]
        /\ best_order = orders_to_try[FirstBest(t_fits)]
        /\ best_model.aic = MinAIC(t_fits)
        /\ t_pc = "saved" =>
               /\ saved.written
               /\ saved.model = best_model
               /\ saved.order = orders_to_try[FirstBest(t_fits)]
               /\ saved.aic = MinAIC(t_fits)

\* a saved search whose first candidate failed and whose minimum AIC was
\* reached by two candidates, the second after a fit with a larger AIC
C6_Witness ==
    /\ t_pc = "saved"
    /\ ~t_fits[1].ok
    /\ \E i, j, k \in Fits(t_fits) :
           /\ i < j /\ j < k
           /\ t_fits[i].aic = t_fits[k].aic
           /\ t_fits[j].aic > t_fits[i].aic
           /\ saved.order = orders_to_try[i]

\* C7: a load whose artifact deserializes to something without a usable
\* fitted model (a null or non-model 'model' entry, a bare non-model, an
\* unrecognized version) reports failure and leaves model_loaded false.
C7_UnusablePayloadFailsLoad ==
    (/\ response.op = "load"
     /\ response.payload.state = "ok"
     /\ ~UsablePayload(response.payload)) =>
        /\ ~response.success
        /\ ~model_loaded

\* C8: for daily, monthly and yearly requests the entries returned carry
\* day_index 0, 1, 2, ... in order, a hybrid request for h days returns h
\* entries, and each entry's date is before the next entry's date.
C8_IndexedAndDatesIncrease ==
    (/\ IsRequest(response)
     /\ response.success
     /\ response.period_type \in PeriodTypes) =>
        /\ response.op = "hybrid" => Len(response.predictions) = response.days
        /\ \A k \in 1..Len(response.predictions) :
               /\ response.predictions[k].day_index = k - 1
               /\ k < Len(response.predictions) =>
                      DateBefore(response.predictions[k].date,
                                 response.predictions[k + 1].date)

\* C9 as claimed: a request made while model_loaded is false or arima_model
\* is null is answered with the not-loaded error and no predictions.
C9_NotLoadedError ==
    (IsRequest(response) /\ (~model_loaded \/ arima_model = NoneModel)) =>
        /\ ~response.success
        /\ response.predictions = <<>>
        /\ response.error = "not_loaded"

\* C9 as amended: a request made while model_loaded is false or arima_model
\* is null is answered with an error and no predictions; the error is the
\* not-loaded error, except for a forecast request with an unrecognized
\* period_type, which is answered with the invalid-period error.
C9_NoModelNoPredictions ==
    (IsRequest(response) /\ (~model_loaded \/ arima_model = NoneModel)) =>
        /\ ~response.success
        /\ response.http # 200
        /\ response.predictions = <<>>
        /\ response.error =
               IF response.op = "forecast" /\ response.period_type \notin PeriodTypes
               THEN "invalid_period" ELSE "not_loaded"

\* a hybrid request was refused while model_loaded was true and arima_model
\* null (a loaded dictionary whose 'model' entry is None)
C9_Witness ==
    /\ response.op = "hybrid"
    /\ model_loaded
    /\ arima_model = NoneModel
    /\ response.error = "not_loaded"
    /\ response.http = 500

\* C10: a load that finds no artifact returns failure and leaves arima_model
\* and model_loaded as they were; a load whose read or deserialization
\* fails returns failure, sets model_loaded false and leaves arima_model
\* as it was.
C10_FailedLoadFrame ==
    [][response'.op = "load" =>
          /\ response'.payload.state = "missing" =>
                 /\ ~response'.success
                 /\ arima_model' = arima_model
                 /\ model_loaded' = model_loaded
          /\ response'.payload.state = "corrupt" =>
                 /\ ~response'.success
                 /\ arima_model' = arima_model
                 /\ ~model_loaded']_vars

\* a load found no artifact and left in place a fitted model whose flag an
\* earlier failed read had cleared
C10_Witness ==
    /\ response.op = "load"
    /\ response.payload.state = "missing"
    /\ ~response.success
    /\ IsFitted(arima_model)
    /\ ~model_loaded

====
